---- MODULE Spec2Model ----
\* Model of package binlookup (binlookup.go): the Search function, the
\* package-level HTTP Client it shares between calls, the upstream service,
\* and the callers of binlookup_test.go.
EXTENDS Integers, Sequences, FiniteSets, TLC

VARIABLES
    env,        \* the scenario: which callers run, which inputs and replies they meet
    Client,     \* the package-level var Client
    inflight,   \* requests the shared Client has sent and not yet answered
    pc,         \* per caller: position in Search
    bin,        \* per caller: the argument of Search
    b,          \* per caller: the named result b (*BIN)
    err,        \* per caller: the named result err
    reply,      \* per caller: what Client.Get returned (resp, err)
    deferred,   \* per caller: whether `defer resp.Body.Close()` is registered
    steps,      \* per caller: the statements of Search executed in this call
    gets,       \* per caller: the URLs requested in this call
    attempts    \* per caller: number of Search calls made (retry loop of the test)

vars == <<env, Client, inflight, pc, bin, b, err, reply, deferred, steps, gets, attempts>>

----------------------------------------------------------------------------
\* Bounds of the model

NumCallers == 2      \* concurrent callers
MaxAttempts == 2     \* calls a retrying caller makes at most
MaxBinLen == 18      \* longest bin tried
MaxMembers == 2      \* members of a JSON object body

----------------------------------------------------------------------------
\* Program constants

StatusOK == 200                 \* http.StatusOK
StatusTooManyRequests == 429    \* http.StatusTooManyRequests
MinRep == 3                     \* \d{3,15}
MaxRep == 15
ClientTimeout == 10             \* seconds

UpstreamBase == "https://lookup.binlist.net/"
ValidationMsg == "BIN must be fully numerical, first digit must be in range of 1-9, and the next digits must be 3-15 characters long."
StatusMsg == "Failed Due to Status Code Error"
DecodeMsg == "JSON Unmarshaling Failed"

CorrectBIN == <<"5", "2", "8", "8", "2", "3", "0">>
IncorrectBIN == <<"0", "8", "1", "2", "4", "3", "6">>

----------------------------------------------------------------------------
\* Pointers: a nil pointer is the empty sequence, a non-nil one holds its target

Nil == <<>>
Ptr(x) == <<x>>

\* Errors: a chain of layers, outermost first; the nil error is the empty chain
NoError == <<>>
Layer(kind, msg, code) == [kind |-> kind, msg |-> msg, code |-> code]

\* errors.New
New(msg) == <<Layer("fundamental", msg, 0)>>
\* errors.Wrap: withStack{withMessage{cause, msg}}
Wrap(e, msg) == <<Layer("withStack", "", 0), Layer("withMessage", msg, 0)>> \o e
\* errors.WithMessage
WithMessage(e, msg) == <<Layer("withMessage", msg, 0)>> \o e
\* Variant: the status is kept by class only (404 and 429 both become 400)
StatusCodeError_class(s) == <<Layer("StatusCodeError", "", (s \div 100) * 100)>>

\* StatusCodeError(s)
StatusCodeError(s) == <<Layer("StatusCodeError", "", s)>>
\* the *url.Error Client.Get returns around the transport's failure
URLError(cause) == <<Layer("url.Error", "Get", 0), Layer(cause, "", 0)>>

\* errors.Cause: unwrap while the error has a Cause method
RECURSIVE Cause(_)
Cause(e) ==
    IF e = NoError THEN NoError
    ELSE IF Head(e).kind \in {"withStack", "withMessage"} THEN Cause(Tail(e))
    ELSE e

\* the type assertion  errors.Cause(err).(StatusCodeError)
IsStatusCodeError(e) == e # NoError /\ Head(e).kind = "StatusCodeError"

----------------------------------------------------------------------------
\* regexp ^[1-9]\d{3,15}$ over a string given as its sequence of characters.
\* \d is ASCII only and $ (no m flag) matches at the end of the text only.

Digits == {"0", "1", "2", "3", "4", "5", "6", "7", "8", "9"}

\* Variant: ^\d\d{3,15}$, a leading zero is let through
MatchString_anyfirst(s) ==
    /\ Len(s) >= 1
    /\ s[1] \in Digits
    /\ \E r \in MinRep..MaxRep :
          /\ Len(s) = 1 + r
          /\ \A i \in 2..(1 + r) : s[i] \in Digits

MatchString(s) ==
    /\ Len(s) >= 1
    /\ s[1] \in Digits \ {"0"}
    /\ \E r \in MinRep..MaxRep :
          /\ Len(s) = 1 + r
          /\ \A i \in 2..(1 + r) : s[i] \in Digits

\* fmt.Sprintf("https://lookup.binlist.net/%v", bin)
URL(s) == <<UpstreamBase>> \o s

----------------------------------------------------------------------------
\* JSON values as the decoder sees them. A number literal keeps its integer
\* part n, its first fraction digit f, and whether it is written with a
\* fraction (dot); an object is its sequence of members, in document order.

JVal(t, str, n, f, dot, bl, o) ==
    [t |-> t, s |-> str, n |-> n, f |-> f, dot |-> dot, bl |-> bl, o |-> o]
JNull == JVal("null", "", 0, 0, FALSE, FALSE, <<>>)
JStr(str) == JVal("string", str, 0, 0, FALSE, FALSE, <<>>)
JInt(n) == JVal("number", "", n, 0, FALSE, FALSE, <<>>)
JFrac(n, f) == JVal("number", "", n, f, TRUE, FALSE, <<>>)
JBool(x) == JVal("bool", "", 0, 0, FALSE, x, <<>>)
JArr == JVal("array", "", 0, 0, FALSE, FALSE, <<>>)
JObj(members) == JVal("object", "", 0, 0, FALSE, FALSE, members)
Member(k, v) == [k |-> k, v |-> v]

\* A response body: no bytes at all ("empty"), bytes that are not JSON
\* ("malformed"), a JSON text cut short ("truncated"), a JSON value ("value"),
\* or a JSON value with stray bytes after it ("trailing")
Body(form, val) == [form |-> form, val |-> val]

\* float64 values: integer part and first fraction digit
Float(n, f) == <<n, f>>

\* The structs of binlookup.go, each field with the name encoding/json knows it
\* by (the json tag, else the Go field name) and the kind of its Go type
Field(name, key, kind) == [name |-> name, key |-> key, kind |-> kind]

Number ==
    { Field("Length", "Length", "int"), Field("Luhn", "Luhn", "bool") }

\* Variant: Short, Lat and Long without their json tags
Country_untagged ==
    { Field("Numeric", "Numeric", "string"), Field("Name", "Name", "string"),
      Field("Emoji", "Emoji", "string"), Field("Currency", "Currency", "string"),
      Field("Short", "Short", "string"),
      Field("Lat", "Lat", "float"), Field("Long", "Long", "float") }

Country ==
    { Field("Numeric", "Numeric", "string"), Field("Name", "Name", "string"),
      Field("Emoji", "Emoji", "string"), Field("Currency", "Currency", "string"),
      Field("Short", "alpha2", "string"),
      Field("Lat", "latitude", "float"), Field("Long", "longitude", "float") }

Bank ==
    { Field("Name", "Name", "string"), Field("URL", "URL", "string"),
      Field("Phone", "Phone", "string"), Field("City", "City", "string") }

BIN ==
    { Field("Number", "Number", "Number"),
      Field("Scheme", "Scheme", "string"), Field("Type", "Type", "string"),
      Field("Brand", "Brand", "string"), Field("Prepaid", "Prepaid", "bool"),
      Field("Country", "Country", "Country"), Field("Bank", "Bank", "Bank") }

FieldsOf(struct) ==
    CASE struct = "BIN" -> BIN
      [] struct = "Number" -> Number
      [] struct = "Country" -> Country
      [] struct = "Bank" -> Bank

\* The zero value of each Go type
ZeroNumber == [Length |-> 0, Luhn |-> FALSE]
ZeroCountry ==
    [Numeric |-> "", Name |-> "", Emoji |-> "", Currency |-> "", Short |-> "",
     Lat |-> Float(0, 0), Long |-> Float(0, 0)]
ZeroBank == [Name |-> "", URL |-> "", Phone |-> "", City |-> ""]
ZeroBIN ==
    [Number |-> ZeroNumber, Scheme |-> "", Type |-> "", Brand |-> "",
     Prepaid |-> FALSE, Country |-> ZeroCountry, Bank |-> ZeroBank]

\* encoding/json matches an object key to a field by exact name, else
\* case-insensitively. Lower is the lower-case form of the names that occur.
Lower ==
    [k \in {"Number", "Length", "Luhn", "Scheme", "SCHEME", "Type", "Brand",
            "Prepaid", "Country", "Numeric", "Name", "Emoji", "Currency",
            "Alpha2", "Latitude", "Longitude", "Bank", "URL", "Phone", "City"} |->
        CASE k = "Number" -> "number"     [] k = "Length" -> "length"
          [] k = "Luhn" -> "luhn"         [] k = "Scheme" -> "scheme"
          [] k = "SCHEME" -> "scheme"     [] k = "Type" -> "type"
          [] k = "Brand" -> "brand"       [] k = "Prepaid" -> "prepaid"
          [] k = "Country" -> "country"   [] k = "Numeric" -> "numeric"
          [] k = "Name" -> "name"         [] k = "Emoji" -> "emoji"
          [] k = "Currency" -> "currency" [] k = "Alpha2" -> "alpha2"
          [] k = "Latitude" -> "latitude" [] k = "Longitude" -> "longitude"
          [] k = "Bank" -> "bank"         [] k = "URL" -> "url"
          [] k = "Phone" -> "phone"       [] k = "City" -> "city"]

foldName(k) == IF k \in DOMAIN Lower THEN Lower[k] ELSE k

\* The fields of struct that the key selects (none or one)
MatchField(struct, k) ==
    LET exact == {fl \in FieldsOf(struct) : fl.key = k}
    IN  IF exact # {} THEN exact
        ELSE {fl \in FieldsOf(struct) : foldName(fl.key) = foldName(k)}

UnmarshalTypeError(v) == <<Layer("json.UnmarshalTypeError", v.t, 0)>>

\* decodeState.saveError: only the first error is kept
saveError(saved, e) == IF saved = NoError THEN e ELSE saved

\* decodeState.literalStore into a field of a basic Go type: null leaves the
\* field alone, a literal of the wrong type is recorded and skipped
literalStore(st, fl, v) ==
    LET set(x) == [st EXCEPT !.v = [st.v EXCEPT ![fl.name] = x]]
        bad == [st EXCEPT !.e = saveError(st.e, UnmarshalTypeError(v))]
    IN  CASE v.t = "null" -> st
          [] fl.kind = "string" -> IF v.t = "string" THEN set(v.s) ELSE bad
          [] fl.kind = "bool" -> IF v.t = "bool" THEN set(v.bl) ELSE bad
          [] fl.kind = "int" ->
                IF v.t = "number" /\ ~v.dot THEN set(v.n) ELSE bad
          [] fl.kind = "float" ->
                IF v.t = "number" THEN set(Float(v.n, v.f)) ELSE bad

\* decodeState.object: decode the members, in order, into the struct value
\* rec; unknown keys are skipped, decoding goes on after a type error
RECURSIVE object(_, _, _)
object(struct, st, members) ==
    IF members = <<>> THEN st
    ELSE
        LET m == Head(members)
            hit == MatchField(struct, m.k)
            fl == CHOOSE x \in hit : TRUE
            sub == object(fl.kind, [v |-> st.v[fl.name], e |-> st.e], m.v.o)
            next ==
                IF hit = {} THEN st
                ELSE IF fl.kind \in {"string", "bool", "int", "float"}
                     THEN literalStore(st, fl, m.v)
                ELSE IF m.v.t = "null" THEN st
                ELSE IF m.v.t = "object"
                     THEN [v |-> [st.v EXCEPT ![fl.name] = sub.v], e |-> sub.e]
                ELSE [st EXCEPT !.e = saveError(st.e, UnmarshalTypeError(m.v))]
        IN  object(struct, next, Tail(members))

\* json.NewDecoder(body).Decode(&b), b being a *BIN: the new value of b and
\* the error returned. The first JSON value is read whole before anything is
\* stored, so a text that is not JSON leaves b alone; null sets b to nil; any
\* other value allocates *b when b is nil, before its type is looked at.
\* Decode reads the first value only: bytes after it are never looked at.
Decode(ptr, body) ==
    LET target == IF ptr = Nil THEN ZeroBIN ELSE ptr[1]
        st == object("BIN", [v |-> target, e |-> NoError], body.val.o)
    IN  CASE body.form = "empty" ->
                [b |-> ptr, err |-> <<Layer("io.EOF", "", 0)>>]
          [] body.form = "truncated" ->
                [b |-> ptr, err |-> <<Layer("io.ErrUnexpectedEOF", "", 0)>>]
          [] body.form = "malformed" ->
                [b |-> ptr, err |-> <<Layer("json.SyntaxError", "", 0)>>]
          [] body.val.t = "null" ->
                [b |-> Nil, err |-> NoError]
          [] body.val.t = "object" ->
                [b |-> Ptr(st.v), err |-> st.e]
          [] OTHER ->
                [b |-> Ptr(target), err |-> UnmarshalTypeError(body.val)]

----------------------------------------------------------------------------
\* The inputs and replies tried

Callers == 1..NumCallers

SeqsUpTo(S, n) == UNION {[1..k -> S] : k \in 0..n}

\* a first character, possibly a second one, n sevens, and possibly one last character
BinOf(first, second, n, last) == <<first>> \o second \o [i \in 1..n |-> "7"] \o last

TestBins == {CorrectBIN, IncorrectBIN}

AllBins ==
    TestBins \cup {<<>>} \cup
    { s \in { BinOf(first, second, n, last) :
                first \in {"0", "1", "9", "x"}, second \in {<<>>, <<"x">>},
                n \in 0..(MaxBinLen - 1),
                last \in {<<>>, <<"0">>, <<"x">>, <<"\n">>} } :
        Len(s) <= MaxBinLen }

Statuses == {200, 201, 301, 400, 404, 429, 500}

Causes == {"timeout", "dial", "dns"}

GoodMembers ==
    << Member("number", JObj(<<Member("length", JInt(16)), Member("luhn", JBool(TRUE))>>)),
       Member("scheme", JStr("mastercard")),
       Member("type", JStr("debit")),
       Member("prepaid", JBool(FALSE)),
       Member("country", JObj(<<Member("alpha2", JStr("DK")), Member("latitude", JFrac(56, 2)),
                                Member("longitude", JInt(10))>>)),
       Member("bank", JObj(<<Member("name", JStr("Jyske Bank")), Member("url", JStr("jyskebank.dk"))>>)) >>

\* {"scheme":"visa","prepaid":"yes","brand":"Classic"}: the second member has the wrong type
MistypedMembers ==
    << Member("scheme", JStr("visa")), Member("prepaid", JStr("yes")),
       Member("brand", JStr("Classic")) >>

TestBodies ==
    { Body("value", JObj(GoodMembers)), Body("value", JObj(MistypedMembers)),
      Body("value", JNull), Body("malformed", JNull) }

MemberPool ==
    { Member("scheme", JStr("visa")), Member("SCHEME", JStr("amex")),
      Member("scheme", JInt(5)), Member("brand", JNull),
      Member("prepaid", JBool(TRUE)), Member("prepaid", JStr("yes")),
      Member("number", JObj(<<Member("length", JInt(16)), Member("luhn", JBool(TRUE))>>)),
      Member("number", JObj(<<Member("luhn", JBool(TRUE)), Member("length", JFrac(16, 5))>>)),
      Member("number", JArr),
      Member("country", JObj(<<Member("alpha2", JStr("DK")), Member("short", JStr("XX")),
                               Member("latitude", JFrac(56, 2)), Member("longitude", JInt(10))>>)),
      Member("country", JNull),
      Member("bank", JObj(<<Member("URL", JStr("jyskebank.dk")), Member("city", JStr("Silkeborg"))>>)),
      Member("extra", JStr("ignored")) }

AllBodies ==
    TestBodies \cup
    { Body("empty", JNull), Body("truncated", JNull),
      Body("value", JArr), Body("value", JStr("visa")), Body("value", JInt(5)),
      Body("value", JBool(TRUE)),
      Body("trailing", JObj(GoodMembers)), Body("trailing", JObj(MistypedMembers)),
      Body("trailing", JNull) } \cup
    { Body("value", JObj(ms)) : ms \in SeqsUpTo(MemberPool, MaxMembers) }

\* The scenarios: several callers at once with the inputs of the tests; one
\* caller and every bin; one caller and every body
CallersOf(e) == IF e = "concurrent" THEN Callers ELSE {1}
BinsOf(e) ==
    CASE e = "concurrent" -> TestBins
      [] e = "bins" -> AllBins
      [] e = "bodies" -> {CorrectBIN}
StatusesOf(e) == IF e = "concurrent" THEN {200, 429} ELSE Statuses
CausesOf(e) == IF e = "concurrent" THEN {"timeout"} ELSE Causes
BodiesOf(e) ==
    CASE e = "concurrent" -> TestBodies \ {Body("malformed", JNull)}
      [] e = "bins" -> TestBodies
      [] e = "bodies" -> AllBodies

----------------------------------------------------------------------------
\* State

NoReply == [kind |-> "none", status |-> 0, body |-> Body("empty", JNull), cause |-> ""]
Response(status, body) == [kind |-> "resp", status |-> status, body |-> body, cause |-> ""]
Failure(cause) == [kind |-> "err", status |-> 0, body |-> Body("empty", JNull), cause |-> cause]

InitWith(e) ==
    /\ env = e
    /\ Client = [Timeout |-> ClientTimeout]
    /\ inflight = {}
    /\ pc = [p \in Callers |-> "idle"]
    /\ bin = [p \in Callers |-> <<>>]
    /\ b = [p \in Callers |-> Nil]
    /\ err = [p \in Callers |-> NoError]
    /\ reply = [p \in Callers |-> NoReply]
    /\ deferred = [p \in Callers |-> FALSE]
    /\ steps = [p \in Callers |-> <<>>]
    /\ gets = [p \in Callers |-> <<>>]
    /\ attempts = [p \in Callers |-> 0]

Init == InitWith("concurrent")
InitBins == InitWith("bins")
InitBodies == InitWith("bodies")

\* Entry into Search(s): fresh results and locals
Enter(p, s) ==
    /\ attempts[p] < MaxAttempts
    /\ pc' = [pc EXCEPT ![p] = "match"]
    /\ bin' = [bin EXCEPT ![p] = s]
    /\ b' = [b EXCEPT ![p] = Nil]
    /\ err' = [err EXCEPT ![p] = NoError]
    /\ reply' = [reply EXCEPT ![p] = NoReply]
    /\ deferred' = [deferred EXCEPT ![p] = FALSE]
    /\ steps' = [steps EXCEPT ![p] = <<>>]
    /\ gets' = [gets EXCEPT ![p] = <<>>]
    /\ attempts' = [attempts EXCEPT ![p] = @ + 1]
    /\ UNCHANGED <<env, Client, inflight>>

\* A caller calls Search(s)
Search(p) ==
    /\ p \in CallersOf(env)
    /\ pc[p] = "idle"
    /\ \E s \in BinsOf(env) : Enter(p, s)

\* The caller of TestSearchWithCorrectBIN: on a 429, call Search again
Retry(p) ==
    /\ pc[p] = "done"
    /\ IsStatusCodeError(Cause(err[p]))
    /\ Head(Cause(err[p])).code = StatusTooManyRequests
    /\ Enter(p, bin[p])

\* ok := regexp.MustCompile(...).MatchString(bin); if !ok { err = errors.New(...); return }
MatchBin(p) ==
    /\ pc[p] = "match"
    /\ steps' = [steps EXCEPT ![p] = Append(@, "match")]
    /\ IF MatchString(bin[p])
       THEN /\ pc' = [pc EXCEPT ![p] = "get"]
            /\ err' = err
       ELSE /\ pc' = [pc EXCEPT ![p] = "return"]
            /\ err' = [err EXCEPT ![p] = New(ValidationMsg)]
    /\ UNCHANGED <<env, Client, inflight, bin, b, reply, deferred, gets, attempts>>

\* Client.Get(url): the request leaves through the shared Client
ClientGet(p) ==
    /\ pc[p] = "get"
    /\ pc' = [pc EXCEPT ![p] = "await"]
    /\ inflight' = inflight \cup {[caller |-> p, url |-> URL(bin[p])]}
    /\ gets' = [gets EXCEPT ![p] = Append(@, URL(bin[p]))]
    /\ steps' = [steps EXCEPT ![p] = Append(@, "get")]
    /\ UNCHANGED <<env, Client, bin, b, err, reply, deferred, attempts>>

\* Variant: the close of the body is not deferred
GetResponse_nodefer(p) ==
    /\ pc[p] = "await"
    /\ [caller |-> p, url |-> URL(bin[p])] \in inflight
    /\ inflight' = inflight \ {[caller |-> p, url |-> URL(bin[p])]}
    /\ \E status \in StatusesOf(env), body \in BodiesOf(env) :
          reply' = [reply EXCEPT ![p] = Response(status, body)]
    /\ err' = [err EXCEPT ![p] = NoError]
    /\ pc' = [pc EXCEPT ![p] = "switch"]
    /\ UNCHANGED <<env, Client, bin, b, deferred, steps, gets, attempts>>

\* Client.Get returns a response: err is nil, and the close of the body is deferred
GetResponse(p) ==
    /\ pc[p] = "await"
    /\ [caller |-> p, url |-> URL(bin[p])] \in inflight
    /\ inflight' = inflight \ {[caller |-> p, url |-> URL(bin[p])]}
    /\ \E status \in StatusesOf(env), body \in BodiesOf(env) :
          reply' = [reply EXCEPT ![p] = Response(status, body)]
    /\ err' = [err EXCEPT ![p] = NoError]
    /\ deferred' = [deferred EXCEPT ![p] = TRUE]
    /\ pc' = [pc EXCEPT ![p] = "switch"]
    /\ UNCHANGED <<env, Client, bin, b, steps, gets, attempts>>

\* Variant: the error of Client.Get is not checked, Search goes on to the switch
GetError_unchecked(p) ==
    /\ pc[p] = "await"
    /\ [caller |-> p, url |-> URL(bin[p])] \in inflight
    /\ inflight' = inflight \ {[caller |-> p, url |-> URL(bin[p])]}
    /\ \E cause \in CausesOf(env) :
          /\ reply' = [reply EXCEPT ![p] = Failure(cause)]
          /\ err' = [err EXCEPT ![p] = URLError(cause)]
    /\ pc' = [pc EXCEPT ![p] = "switch"]
    /\ UNCHANGED <<env, Client, bin, b, deferred, steps, gets, attempts>>

\* Client.Get returns an error: if err != nil { return }
GetError(p) ==
    /\ pc[p] = "await"
    /\ [caller |-> p, url |-> URL(bin[p])] \in inflight
    /\ inflight' = inflight \ {[caller |-> p, url |-> URL(bin[p])]}
    /\ \E cause \in CausesOf(env) :
          /\ reply' = [reply EXCEPT ![p] = Failure(cause)]
          /\ err' = [err EXCEPT ![p] = URLError(cause)]
    /\ pc' = [pc EXCEPT ![p] = "return"]
    /\ UNCHANGED <<env, Client, bin, b, deferred, steps, gets, attempts>>

\* Variant: a 429 is retried inside Search
SwitchStatus_retry(p) ==
    /\ pc[p] = "switch"
    /\ steps' = [steps EXCEPT ![p] = Append(@, "switch")]
    /\ IF reply[p].status = StatusOK
       THEN /\ pc' = [pc EXCEPT ![p] = "decode"]
            /\ err' = err
       ELSE IF reply[p].status = StatusTooManyRequests
       THEN /\ pc' = [pc EXCEPT ![p] = "get"]
            /\ err' = err
       ELSE /\ pc' = [pc EXCEPT ![p] = "return"]
            /\ err' = [err EXCEPT ![p] = Wrap(StatusCodeError(reply[p].status), StatusMsg)]
    /\ UNCHANGED <<env, Client, inflight, bin, b, reply, deferred, gets, attempts>>

\* switch s := resp.StatusCode; s { case http.StatusOK: break; default: err = errors.Wrap(...); return }
SwitchStatus(p) ==
    /\ pc[p] = "switch"
    /\ steps' = [steps EXCEPT ![p] = Append(@, "switch")]
    /\ IF reply[p].status = StatusOK
       THEN /\ pc' = [pc EXCEPT ![p] = "decode"]
            /\ err' = err
       ELSE /\ pc' = [pc EXCEPT ![p] = "return"]
            /\ err' = [err EXCEPT ![p] = Wrap(StatusCodeError(reply[p].status), StatusMsg)]
    /\ UNCHANGED <<env, Client, inflight, bin, b, reply, deferred, gets, attempts>>

\* Variant: the decoder's error is returned as a status error
DecodeBody_asStatus(p) ==
    /\ pc[p] = "decode"
    /\ steps' = [steps EXCEPT ![p] = Append(@, "decode")]
    /\ LET r == Decode(b[p], reply[p].body)
       IN  /\ b' = [b EXCEPT ![p] = r.b]
           /\ err' = [err EXCEPT ![p] =
                        IF r.err # NoError
                        THEN Wrap(StatusCodeError(reply[p].status), StatusMsg)
                        ELSE NoError]
    /\ pc' = [pc EXCEPT ![p] = "return"]
    /\ UNCHANGED <<env, Client, inflight, bin, reply, deferred, gets, attempts>>

\* Variant: the result is decoded into a variable all calls share
DecodeBody_shared(p) ==
    /\ pc[p] = "decode"
    /\ steps' = [steps EXCEPT ![p] = Append(@, "decode")]
    /\ LET r == Decode(b[p], reply[p].body)
       IN  /\ b' = [q \in Callers |-> r.b]
           /\ err' = [err EXCEPT ![p] =
                        IF r.err # NoError THEN WithMessage(r.err, DecodeMsg) ELSE NoError]
    /\ pc' = [pc EXCEPT ![p] = "return"]
    /\ UNCHANGED <<env, Client, inflight, bin, reply, deferred, gets, attempts>>

\* if err = json.NewDecoder(resp.Body).Decode(&b); err != nil { err = errors.WithMessage(...); return }
DecodeBody(p) ==
    /\ pc[p] = "decode"
    /\ steps' = [steps EXCEPT ![p] = Append(@, "decode")]
    /\ LET r == Decode(b[p], reply[p].body)
       IN  /\ b' = [b EXCEPT ![p] = r.b]
           /\ err' = [err EXCEPT ![p] =
                        IF r.err # NoError THEN WithMessage(r.err, DecodeMsg) ELSE NoError]
    /\ pc' = [pc EXCEPT ![p] = "return"]
    /\ UNCHANGED <<env, Client, inflight, bin, reply, deferred, gets, attempts>>

\* return: the deferred resp.Body.Close() runs, if it was registered, and the
\* caller receives (b, err)
Return(p) ==
    /\ pc[p] = "return"
    /\ steps' = [steps EXCEPT ![p] = IF deferred[p] THEN Append(@, "close") ELSE @]
    /\ deferred' = [deferred EXCEPT ![p] = FALSE]
    /\ pc' = [pc EXCEPT ![p] = "done"]
    /\ UNCHANGED <<env, Client, inflight, bin, b, err, reply, gets, attempts>>

Next ==
    \E p \in Callers :
        \/ Search(p)
        \/ Retry(p)
        \/ MatchBin(p)
        \/ ClientGet(p)
        \/ GetResponse(p)
        \/ GetError(p)
        \/ SwitchStatus(p)
        \/ DecodeBody(p)
        \/ Return(p)

Spec == Init /\ [][Next]_vars
SpecBins == InitBins /\ [][Next]_vars
SpecBodies == InitBodies /\ [][Next]_vars

----------------------------------------------------------------------------
\* Properties

Returned(p) == pc[p] = "done"
GotResponse(p) == reply[p].kind = "resp"
Count(seq, x) == Cardinality({i \in DOMAIN seq : seq[i] = x})
Requested(p) == \E rq \in inflight : rq.caller = p

\* "a first digit 1-9 followed by 3 to 15 further digits (total length 4-16,
\* digits only)"
PlainShape(s) ==
    /\ Len(s) \in 4..16
    /\ \A i \in 1..Len(s) : s[i] \in Digits
    /\ s[1] # "0"

ValidationFailed(p) == err[p] = New(ValidationMsg)

\* C1: once the bin has been matched, Search has failed validation if and
\* only if the bin is not a digit 1-9 followed by 3 to 15 digits; when it has,
\* the error is non-nil, the result is nil and no HTTP request was issued
C1_Validation ==
    \A p \in Callers :
        pc[p] \notin {"idle", "match"} =>
            /\ ValidationFailed(p) <=> ~PlainShape(bin[p])
            /\ ValidationFailed(p) =>
                  /\ err[p] # NoError
                  /\ b[p] = Nil
                  /\ gets[p] = <<>>
                  /\ ~Requested(p)
                  /\ Count(steps[p], "get") = 0

C1_Witness ==
    \E p \in Callers :
        Returned(p) /\ bin[p] = IncorrectBIN /\ ValidationFailed(p) /\ gets[p] = <<>>

\* C2: after a response with a status other than 200, the root cause of the
\* error is a StatusCodeError holding exactly that status, the result is nil,
\* and the body was not decoded, whatever it contains
C2_StatusFidelity ==
    \A p \in Callers :
        (pc[p] \in {"return", "done"} /\ GotResponse(p) /\ reply[p].status # 200) =>
            /\ IsStatusCodeError(Cause(err[p]))
            /\ Head(Cause(err[p])).code = reply[p].status
            /\ b[p] = Nil
            /\ Count(steps[p], "decode") = 0

C2_Witness ==
    \E p \in Callers :
        /\ Returned(p) /\ GotResponse(p)
        /\ reply[p].status = 429
        /\ reply[p].body = Body("value", JObj(GoodMembers))
        /\ Head(Cause(err[p])).code = 429

\* C3: a call never issues more than one request; a call with a valid bin
\* that has returned issued exactly one GET, to https://lookup.binlist.net/<bin>,
\* whatever its outcome; a call with an invalid bin issued none
C3_OneRequest ==
    \A p \in Callers :
        /\ Len(gets[p]) <= 1
        /\ Count(steps[p], "get") = Len(gets[p])
        /\ (Returned(p) /\ PlainShape(bin[p])) =>
              /\ Len(gets[p]) = 1
              /\ Head(gets[p][1]) = "https://lookup.binlist.net/"
              /\ Tail(gets[p][1]) = bin[p]
        /\ (Returned(p) /\ ~PlainShape(bin[p])) => gets[p] = <<>>

\* a caller that retried after a 429: its second call also made one request
C3_Witness ==
    \E p \in Callers :
        /\ Returned(p) /\ attempts[p] = 2
        /\ GotResponse(p) /\ reply[p].status = 429
        /\ Len(gets[p]) = 1

\* The JSON names of section 6 of the specification, per object
WireNames(struct) ==
    CASE struct = "BIN" -> {"number", "scheme", "type", "brand", "prepaid", "country", "bank"}
      [] struct = "Number" -> {"length", "luhn"}
      [] struct = "Country" -> {"numeric", "alpha2", "name", "emoji", "currency",
                                "latitude", "longitude"}
      [] struct = "Bank" -> {"name", "url", "phone", "city"}

WireKind(struct, k) ==
    CASE struct = "BIN" /\ k = "number" -> "Number"
      [] struct = "BIN" /\ k = "country" -> "Country"
      [] struct = "BIN" /\ k = "bank" -> "Bank"
      [] struct = "BIN" /\ k = "prepaid" -> "bool"
      [] struct = "Number" /\ k = "length" -> "int"
      [] struct = "Number" /\ k = "luhn" -> "bool"
      [] struct = "Country" /\ k \in {"latitude", "longitude"} -> "float"
      [] OTHER -> "string"

\* names that differ from a JSON name of the object by letter case only
CaseVariant(struct, k) ==
    k \notin WireNames(struct) /\ foldName(k) \in WireNames(struct)

\* A well-formed body of the expected shape: an object whose members are named
\* as in section 6 (each name at most once) or not at all like a field, each
\* named member being null or of the type of its field
RECURSIVE ExpectedShape(_, _)
ExpectedShape(struct, ms) ==
    /\ \A i, j \in DOMAIN ms : ms[i].k = ms[j].k => i = j
    /\ \A i \in DOMAIN ms :
          LET k == ms[i].k
              v == ms[i].v
              kind == WireKind(struct, k)
          IN  /\ ~CaseVariant(struct, k)
              /\ (k \in WireNames(struct) /\ v.t # "null") =>
                    CASE kind = "string" -> v.t = "string"
                      [] kind = "bool" -> v.t = "bool"
                      [] kind = "int" -> v.t = "number" /\ ~v.dot
                      [] kind = "float" -> v.t = "number"
                      [] OTHER -> v.t = "object" /\ ExpectedShape(kind, v.o)

\* the value of the member named k, if there is one that is not null
Has(ms, k) == \E i \in DOMAIN ms : ms[i].k = k /\ ms[i].v.t # "null"
At(ms, k) == ms[CHOOSE i \in DOMAIN ms : ms[i].k = k /\ ms[i].v.t # "null"].v
StrAt(ms, k) == IF Has(ms, k) THEN At(ms, k).s ELSE ""
BoolAt(ms, k) == IF Has(ms, k) THEN At(ms, k).bl ELSE FALSE
IntAt(ms, k) == IF Has(ms, k) THEN At(ms, k).n ELSE 0
FloatAt(ms, k) == IF Has(ms, k) THEN <<At(ms, k).n, At(ms, k).f>> ELSE <<0, 0>>
ObjAt(ms, k) == IF Has(ms, k) THEN At(ms, k).o ELSE <<>>

\* the record whose fields are the values of the corresponding JSON fields
Mirror(ms) ==
    [Number |-> [Length |-> IntAt(ObjAt(ms, "number"), "length"),
                 Luhn |-> BoolAt(ObjAt(ms, "number"), "luhn")],
     Scheme |-> StrAt(ms, "scheme"),
     Type |-> StrAt(ms, "type"),
     Brand |-> StrAt(ms, "brand"),
     Prepaid |-> BoolAt(ms, "prepaid"),
     Country |-> [Numeric |-> StrAt(ObjAt(ms, "country"), "numeric"),
                  Name |-> StrAt(ObjAt(ms, "country"), "name"),
                  Emoji |-> StrAt(ObjAt(ms, "country"), "emoji"),
                  Currency |-> StrAt(ObjAt(ms, "country"), "currency"),
                  Short |-> StrAt(ObjAt(ms, "country"), "alpha2"),
                  Lat |-> FloatAt(ObjAt(ms, "country"), "latitude"),
                  Long |-> FloatAt(ObjAt(ms, "country"), "longitude")],
     Bank |-> [Name |-> StrAt(ObjAt(ms, "bank"), "name"),
               URL |-> StrAt(ObjAt(ms, "bank"), "url"),
               Phone |-> StrAt(ObjAt(ms, "bank"), "phone"),
               City |-> StrAt(ObjAt(ms, "bank"), "city")]]

WellFormed(body) ==
    body.form = "value" /\ body.val.t = "object" /\ ExpectedShape("BIN", body.val.o)

\* C4: after a 200 whose body is a well-formed JSON object of the expected
\* shape, the error is nil and the result holds, field by field, the values of
\* the corresponding JSON fields, and the zero value where the body has none
C4_RoundTrip ==
    \A p \in Callers :
        (Returned(p) /\ GotResponse(p) /\ reply[p].status = 200
            /\ WellFormed(reply[p].body)) =>
            /\ err[p] = NoError
            /\ b[p] = Ptr(Mirror(reply[p].body.val.o))

C4_Witness ==
    \E p \in Callers :
        /\ Returned(p) /\ GotResponse(p) /\ reply[p].status = 200
        /\ reply[p].body = Body("value", JObj(GoodMembers))
        /\ b[p] # Nil
        /\ b[p][1].Country.Short = "DK"
        /\ b[p][1].Number.Length = 16
        /\ b[p][1].Brand = ""

\* A body whose parse fails: no JSON value at its start, a JSON value that is
\* neither an object nor null, or an object in which a member that names a
\* field has a value of another type
RECURSIVE Mistyped(_, _)
Mistyped(struct, ms) ==
    \E i \in DOMAIN ms :
        \E fl \in MatchField(struct, ms[i].k) :
            LET v == ms[i].v
            IN  /\ v.t # "null"
                /\ CASE fl.kind = "string" -> v.t # "string"
                     [] fl.kind = "bool" -> v.t # "bool"
                     [] fl.kind = "int" -> v.t # "number" \/ v.dot
                     [] fl.kind = "float" -> v.t # "number"
                     [] OTHER -> v.t # "object" \/ Mistyped(fl.kind, v.o)

ParseFails(body) ==
    \/ body.form \in {"empty", "truncated", "malformed"}
    \/ body.val.t \notin {"object", "null"}
    \/ body.val.t = "object" /\ Mistyped("BIN", body.val.o)

ParseErrors ==
    {"io.EOF", "io.ErrUnexpectedEOF", "json.SyntaxError", "json.UnmarshalTypeError"}

C6_TransportFailure ==
    \A p \in Callers :
        (pc[p] \in {"return", "done"} /\ reply[p].kind = "err") =>
            /\ err[p] # NoError
            /\ Head(err[p]).kind = "url.Error"
            /\ err[p][Len(err[p])].kind = reply[p].cause
            /\ ~IsStatusCodeError(Cause(err[p]))
            /\ b[p] = Nil
            /\ Count(steps[p], "switch") = 0
            /\ Count(steps[p], "decode") = 0

C6_Witness ==
    \E p \in Callers :
        /\ Returned(p) /\ reply[p].kind = "err" /\ reply[p].cause = "timeout"
        /\ PlainShape(bin[p]) /\ Len(gets[p]) = 1
        /\ err[p] # NoError

\* C7: whenever Search has returned a non-nil error, the result is nil
C7_AllOrNothing ==
    \A p \in Callers : (Returned(p) /\ err[p] # NoError) => b[p] = Nil

\* C10: whenever Search has returned a nil error, the result is non-nil
C10_ResultOrError ==
    \A p \in Callers : (Returned(p) /\ err[p] = NoError) => b[p] # Nil

\* Search run on its own, from its argument and the reply to its own request
Alone(s, r) ==
    IF ~PlainShape(s) THEN [b |-> Nil, err |-> New(ValidationMsg)]
    ELSE IF r.kind = "err" THEN [b |-> Nil, err |-> URLError(r.cause)]
    ELSE IF r.status # 200
         THEN [b |-> Nil, err |-> Wrap(StatusCodeError(r.status), StatusMsg)]
    ELSE IF ParseFails(r.body)
         THEN [b |-> Decode(Nil, r.body).b,
               err |-> WithMessage(Decode(Nil, r.body).err, DecodeMsg)]
    ELSE [b |-> Decode(Nil, r.body).b, err |-> NoError]

Locals(p) == <<pc[p], bin[p], b[p], err[p], reply[p], deferred[p], steps[p], gets[p], attempts[p]>>

\* C8: a step of one call leaves the results, the error, the response and the
\* locals of every other call as they were, and leaves the shared Client as
\* it was; the outcome a call returns is the one Search gives, run alone, for
\* its own bin and the reply to its own request
C8_Step ==
    /\ Client' = Client
    /\ \A p \in Callers :
          pc'[p] # pc[p] =>
              /\ \A q \in Callers \ {p} : Locals(q)' = Locals(q)
              /\ pc'[p] = "done" =>
                    /\ b'[p] = Alone(bin'[p], reply'[p]).b
                    /\ err'[p] = Alone(bin'[p], reply'[p]).err

C8_Independent == [][C8_Step]_vars

\* two calls with the same bin in progress at once, with different outcomes
C8_Witness ==
    \E p, q \in Callers :
        /\ p # q /\ bin[p] = bin[q]
        /\ Returned(p) /\ err[p] = NoError /\ b[p] # Nil
        /\ pc[q] = "return" /\ IsStatusCodeError(Cause(err[q]))

\* C9: a call that has returned closed the response body once if it obtained
\* a response, and closed nothing if it did not; no call closes a body twice,
\* or before it has a response
C9_BodyClosed ==
    \A p \in Callers :
        /\ Count(steps[p], "close") <= 1
        /\ Count(steps[p], "close") = 1 => GotResponse(p)
        /\ Returned(p) =>
              /\ Count(steps[p], "close") = (IF GotResponse(p) THEN 1 ELSE 0)
              /\ ~deferred[p]

\* a call that failed in the decoder, after a 200, and closed the body
C9_Witness ==
    \E p \in Callers :
        /\ Returned(p) /\ GotResponse(p) /\ reply[p].status = 200
        /\ err[p] # NoError
        /\ Count(steps[p], "close") = 1

====
